---- MODULE Spec2Model ----
(***************************************************************************)
(* A model of PySnake's SnakeBoard (src/PySnake.py): the grid of tags, the *)
(* snake's position history, the apple, the committed direction, the       *)
(* move-lock and the termination flag, driven by the public methods that   *)
(* write them (update_direction, next, generate_apple), and of main(), the *)
(* loop that drives update_direction and next.                             *)
(* Python's 0-based (row, col) cells are kept; a direction is the tuple    *)
(* (horizontal, vertical) of the source, so direction[0] of the source is  *)
(* direction[1] here and direction[1] of the source is direction[2] here.  *)
(***************************************************************************)
EXTENDS Integers, Sequences, FiniteSets

VARIABLES
    row,              \* self._row
    col,              \* self._col
    board,            \* self._board, a function from <<r, c>> to a tag
    snake_direction,  \* self._snake_direction
    snake_row,        \* self._snake_row
    snake_col,        \* self._snake_col
    snake,            \* self._snake, the history of head positions
    snake_length,     \* self._snake_length
    end,              \* self._end
    apple_row,        \* self._apple_row
    apple_col,        \* self._apple_col
    move_lock,        \* self._move_lock
    pc,               \* "idle" between calls, "generate_apple" inside its loop
    ret,              \* the value the most recent completed next() returned
    call,             \* the most recent call made on the board
    mpc,              \* where main() stands ("none": the board is used alone)
    game_start,       \* main's game_start
    delay,            \* main's delay
    changes,          \* update_direction calls that changed the direction
                      \* since the last next() (since __init__ before the first)
    tick_dir          \* the direction the most recent next() used

vars == <<row, col, board, snake_direction, snake_row, snake_col, snake,
          snake_length, end, apple_row, apple_col, move_lock, pc, ret, call>>

\* main's own variables, and the two history variables.
mainvars == <<mpc, game_start, delay>>

histvars == <<changes, tick_dir>>

allvars == <<vars, mainvars, histvars>>

\* Bounds of the model: the largest grid dimension, the length beyond which
\* the snake is not fed when the board is driven freely, and when main()
\* drives it.
MaxDim == 3
MaxLength == 4
MainMaxLength == 6

\* Bounds of the model of the whole class, where a client also calls
\* generate_apple itself: two rows and up to ApiMaxCol columns, at most
\* MaxApples cells tagged 'A', and the snake fed up to ApiMaxLength.
ApiMaxCol == 3
MaxApples == 3
ApiMaxLength == 2

\* The smallest grid dimension __init__ accepts.
MinDim == 2

\* settings.py
SPEED_CAP == 250
STARTING_SPEED == 500

\* KEY_DICT: the four directions the event loop forwards.
KEY_DICT == {<<0, -1>>, <<0, 1>>, <<-1, 0>>, <<1, 0>>}

Tags == {"N", "S1", "S0", "A"}

Cells(r, c) == (0 .. r - 1) \X (0 .. c - 1)

\* generate_apple: the outcomes of the rejection loop, one per cell tagged
\* 'N'; the loop has no other exit, so there is no outcome without one.
generate_apple_any(b) ==
    { [board |-> [b EXCEPT ![a] = "A"], apple_row |-> a[1], apple_col |-> a[2]] :
        a \in {x \in DOMAIN b : b[x] # "S1"} }

generate_apple_unchecked(b) ==
    { [board |-> [b EXCEPT ![a] = "A"], apple_row |-> a[1], apple_col |-> a[2]] :
        a \in DOMAIN b }

generate_apple(b) ==
    { [board |-> [b EXCEPT ![a] = "A"], apple_row |-> a[1], apple_col |-> a[2]] :
        a \in {x \in DOMAIN b : b[x] = "N"} }

\* if row < 2 or col < 2: raise InvalidGridSizeException
invalid_grid_both(r, c) == r < MinDim /\ c < MinDim

invalid_grid(r, c) == r < MinDim \/ c < MinDim

\* __init__(r, c) for valid dimensions: an all-'N' grid, a random head, an
\* apple.
SnakeBoard(r, c) ==
    /\ ~invalid_grid(r, c)
    /\ row = r
    /\ col = c
    /\ snake_direction = <<0, 0>>
    /\ end = FALSE
    /\ snake_row \in 0 .. row - 1
    /\ snake_col \in 0 .. col - 1
    /\ snake = << <<snake_row, snake_col>> >>
    /\ snake_length = 1
    /\ \E g \in generate_apple([x \in Cells(row, col) |->
                                   IF x = <<snake_row, snake_col>> THEN "S1" ELSE "N"]) :
          /\ board = g.board
          /\ apple_row = g.apple_row
          /\ apple_col = g.apple_col
    /\ move_lock = FALSE
    /\ pc = "idle"
    /\ ret = "NoCall"
    /\ call = [op |-> "__init__", arg |-> <<r, c>>]

\* A board constructed with dimensions the constructor accepts.
Init == \E r, c \in MinDim .. MaxDim : SnakeBoard(r, c)

\* The reversal test of update_direction: the request is taken unless its
\* negation matches the current direction on the horizontal or on the
\* vertical axis.
accepted_inverted(direction, cur) ==
    ((0 - direction[1]) = cur[1] \/ (0 - direction[2]) = cur[2])

accepted_both_axes(direction, cur) ==
    ~((0 - direction[1]) = cur[1] /\ (0 - direction[2]) = cur[2])

accepted(direction, cur) ==
    ~((0 - direction[1]) = cur[1] \/ (0 - direction[2]) = cur[2])

update_direction(direction) ==
    /\ pc = "idle"
    /\ call' = [op |-> "update_direction", arg |-> direction]
    /\ IF move_lock
       THEN UNCHANGED <<snake_direction, move_lock>>
       ELSE LET cur == IF snake_direction = <<0, 0>> THEN direction
                       ELSE snake_direction
            IN  IF accepted(direction, cur)
                THEN /\ snake_direction' = direction
                     /\ move_lock' = TRUE
                ELSE /\ snake_direction' = cur
                     /\ UNCHANGED move_lock
    /\ UNCHANGED <<row, col, board, snake_row, snake_col, snake, snake_length,
                   end, apple_row, apple_col, pc, ret>>

\* The two crash tests of next, on the board as it is when next is entered.
crashes_wall_only(b, r, c, new_row, new_col) ==
    ~(0 <= new_row /\ new_row < r) \/ ~(0 <= new_col /\ new_col < c)

crashes(b, r, c, new_row, new_col) ==
    \/ ~(0 <= new_row /\ new_row < r) \/ ~(0 <= new_col /\ new_col < c)
    \/ b[<<new_row, new_col>>] = "S0"

\* The crash path: the flag is set, True is returned, nothing else is written.
next_crash_clears_head ==
    /\ end' = TRUE
    /\ ret' = "True"
    /\ board' = [board EXCEPT ![<<snake_row, snake_col>>] = "N"]
    /\ UNCHANGED <<row, col, snake_direction, snake_row, snake_col, snake,
                   snake_length, apple_row, apple_col, pc>>

next_crash ==
    /\ end' = TRUE
    /\ ret' = "True"
    /\ UNCHANGED <<row, col, board, snake_direction, snake_row, snake_col, snake,
                   snake_length, apple_row, apple_col, pc>>

\* if ate_apple: self._snake_length += 1
grow_never(len, ate_apple) == len

grow(len, ate_apple) == IF ate_apple THEN len + 1 ELSE len

\* for i in range(2, n + 1): board[s[-i]] = 'S0'
RECURSIVE tag_body(_, _, _, _)
tag_body(b, s, i, n) ==
    IF i > n THEN b
    ELSE tag_body([b EXCEPT ![s[Len(s) - i + 1]] = "S0"], s, i + 1, n)

\* for i in range(start, -1, -1): board[s[i]] = 'N'   (i a 0-based index)
RECURSIVE clear_stale(_, _, _)
clear_stale(b, s, i) ==
    IF i < 0 THEN b
    ELSE clear_stale([b EXCEPT ![s[i + 1]] = "N"], s, i - 1)

\* self._snake.append(new); if len(self._snake) > self._snake_length + 1:
\* self._snake.pop(0)
trim_never(s, len) == s

trim(s, len) == IF Len(s) > len + 1 THEN Tail(s) ELSE s

\* What the non-crashing path leaves in _end and returns: _end is not
\* written and the method falls off its end, returning None.
next_flags_reset ==
    /\ end' = FALSE
    /\ ret' = "None"

next_flags ==
    /\ UNCHANGED end
    /\ ret' = "None"

\* The board of the non-crashing path just before the apple is regenerated.
board_after_move(new_row, new_col) ==
    LET b1 == [board EXCEPT ![<<snake_row, snake_col>>] = "N"]
        s1 == Append(snake, <<new_row, new_col>>)
        s2 == trim(s1, snake_length)
        ate_apple == b1[<<new_row, new_col>>] = "A"
        len2 == grow(snake_length, ate_apple)
        b2 == [b1 EXCEPT ![<<new_row, new_col>>] = "S1"]
        b3 == tag_body(b2, s2, 2, len2)
    IN  clear_stale(b3, s2, Len(s2) - len2 - 1)

\* The non-crashing path of next.
next_advance(new_row, new_col) ==
    LET b1 == [board EXCEPT ![<<snake_row, snake_col>>] = "N"]
        s1 == Append(snake, <<new_row, new_col>>)
        s2 == trim(s1, snake_length)
        ate_apple == b1[<<new_row, new_col>>] = "A"
        len2 == grow(snake_length, ate_apple)
        b4 == board_after_move(new_row, new_col)
    IN  /\ snake_row' = new_row
        /\ snake_col' = new_col
        /\ snake' = s2
        /\ snake_length' = len2
        /\ UNCHANGED <<row, col, snake_direction>>
        /\ IF ~ate_apple
           THEN /\ board' = b4
                /\ next_flags
                /\ UNCHANGED <<apple_row, apple_col, pc>>
           ELSE IF generate_apple(b4) = {}
           THEN \* the loop of generate_apple never finds an 'N' cell
                /\ board' = b4
                /\ pc' = "generate_apple"
                /\ UNCHANGED <<apple_row, apple_col, end, ret>>
           ELSE /\ \E g \in generate_apple(b4) :
                      /\ board' = g.board
                      /\ apple_row' = g.apple_row
                      /\ apple_col' = g.apple_col
                /\ next_flags
                /\ UNCHANGED pc

next ==
    /\ pc = "idle"
    /\ call' = [op |-> "next", arg |-> snake_direction]
    /\ move_lock' = FALSE
    /\ LET new_row == snake_row + snake_direction[2]
           new_col == snake_col + snake_direction[1]
       IN  IF crashes(board, row, col, new_row, new_col)
           THEN next_crash
           ELSE next_advance(new_row, new_col)

\* generate_apple() called by a client: the rejection loop tags one more 'N'
\* cell 'A' and moves the apple attributes there; the apple placed before
\* stays on the grid.  With no 'N' cell the loop has no exit.
call_generate_apple ==
    /\ pc = "idle"
    /\ call' = [op |-> "generate_apple", arg |-> <<>>]
    /\ IF generate_apple(board) = {}
       THEN /\ pc' = "generate_apple"
            /\ UNCHANGED <<board, apple_row, apple_col>>
       ELSE /\ \E g \in generate_apple(board) :
                  /\ board' = g.board
                  /\ apple_row' = g.apple_row
                  /\ apple_col' = g.apple_col
            /\ UNCHANGED pc
    /\ UNCHANGED <<row, col, snake_direction, snake_row, snake_col, snake,
                   snake_length, end, move_lock, ret>>

\* The bound on the cells tagged 'A': generate_apple is not called by the
\* client once n cells are tagged.
Stocked(n) ==
    Cardinality({x \in DOMAIN board : board[x] = "A"}) < n

\* The bound on the snake's length: a tick that would eat is not taken once
\* the snake is n long.
Fed(n) ==
    LET t == <<snake_row + snake_direction[2], snake_col + snake_direction[1]>>
    IN  (t \in DOMAIN board /\ board[t] = "A") => snake_length < n

\* The board used alone: main's variables and the history variables rest.
InitAlone ==
    /\ Init
    /\ mpc = "none"
    /\ game_start = FALSE
    /\ delay = STARTING_SPEED
    /\ changes = 0
    /\ tick_dir = <<0, 0>>

\* A client that plays, as main() does: it calls update_direction and next
\* and never generate_apple.
NextPlay ==
    \/ \E direction \in KEY_DICT :
          update_direction(direction) /\ UNCHANGED <<mainvars, histvars>>
    \/ (Fed(MaxLength) /\ next /\ UNCHANGED <<mainvars, histvars>>)

PlaySpec == InitAlone /\ [][NextPlay]_allvars

\* The class used by any client: its three mutating public methods.
InitApi ==
    /\ \E c \in MinDim .. ApiMaxCol : SnakeBoard(MinDim, c)
    /\ mpc = "none"
    /\ game_start = FALSE
    /\ delay = STARTING_SPEED
    /\ changes = 0
    /\ tick_dir = <<0, 0>>

Next ==
    \/ \E direction \in KEY_DICT :
          update_direction(direction) /\ UNCHANGED <<mainvars, histvars>>
    \/ (Fed(ApiMaxLength) /\ next /\ UNCHANGED <<mainvars, histvars>>)
    \/ (Stocked(MaxApples) /\ call_generate_apple
          /\ UNCHANGED <<mainvars, histvars>>)

Spec == InitApi /\ [][Next]_allvars

\* The game as main() drives it: next is first called only after an arrow
\* key has been forwarded to update_direction, so never with direction (0, 0).
NextDriven ==
    \/ \E direction \in KEY_DICT :
          update_direction(direction) /\ UNCHANGED <<mainvars, histvars>>
    \/ (/\ snake_direction # <<0, 0>>
        /\ Fed(MaxLength) /\ next /\ UNCHANGED <<mainvars, histvars>>)

GameSpec == InitAlone /\ [][NextDriven]_allvars

\* The board used alone, with the two history variables kept: changes counts
\* the update_direction calls that changed _snake_direction since the last
\* next(), tick_dir is the direction that next() used.
NextCounted ==
    \/ \E direction \in KEY_DICT :
          /\ update_direction(direction)
          /\ changes' = IF snake_direction' # snake_direction
                         THEN changes + 1 ELSE changes
          /\ UNCHANGED <<tick_dir, mainvars>>
    \/ (/\ Fed(MaxLength) /\ next
        /\ changes' = 0
        /\ tick_dir' = snake_direction
        /\ UNCHANGED mainvars)

CountedSpec == InitAlone /\ [][NextCounted]_allvars

\* __init__(r, c) for dimensions it refuses: the exception is raised before
\* any attribute is assigned, so no attribute of the board exists.
Raised(r, c) ==
    /\ invalid_grid(r, c)
    /\ pc = "InvalidGridSizeException"
    /\ call = [op |-> "__init__", arg |-> <<r, c>>]
    /\ ret = "NoCall"
    /\ row = "unset" /\ col = "unset" /\ board = "unset"
    /\ snake_direction = "unset" /\ snake_row = "unset" /\ snake_col = "unset"
    /\ snake = "unset" /\ snake_length = "unset" /\ end = "unset"
    /\ apple_row = "unset" /\ apple_col = "unset" /\ move_lock = "unset"

\* SnakeBoard(r, c) for any dimensions from 0 up.
InitAny ==
    /\ \E r, c \in 0 .. MaxDim : SnakeBoard(r, c) \/ Raised(r, c)
    /\ mpc = "none"
    /\ game_start = FALSE
    /\ delay = STARTING_SPEED
    /\ changes = 0
    /\ tick_dir = <<0, 0>>

\* A board that was not constructed takes no call.
NextConstructed == pc = "idle" /\ NextPlay

ConstructSpec == InitAny /\ [][NextConstructed]_allvars

----------------------------------------------------------------------------
\* main(): the start loop, the game loop and the tick delay.  The board is
\* SnakeBoard(ROW, COLUMN); the two settings are drawn from the bounded
\* dimensions of Init.

RECURSIVE GCD(_, _)
GCD(a, b) == IF b = 0 THEN a ELSE GCD(b, a % b)

\* num / den times 0.85 ** k, as a fraction in lowest terms (0.85 = 17 / 20).
RECURSIVE scaled(_, _, _)
scaled(num, den, k) ==
    IF k = 0 THEN <<num, den>>
    ELSE LET n == num * 17
             d == den * 20
             g == GCD(n, d)
         IN  scaled(n \div g, d \div g, k - 1)

\* int(STARTING_SPEED * (0.85 ** length))
delay_for(length) ==
    LET q == scaled(STARTING_SPEED, 1, length) IN q[1] \div q[2]

\* if delay > SPEED_CAP:
recompute_always(d) == TRUE

recompute(d) == d > SPEED_CAP

\* if board.get_end(): break
after_tick_continue(e) == "events"

after_tick(e) == IF e THEN "over" ELSE "events"

InitMain ==
    /\ Init
    /\ mpc = "start"
    /\ game_start = FALSE
    /\ delay = STARTING_SPEED
    /\ changes = 0
    /\ tick_dir = <<0, 0>>

\* The start loop, one event of a batch: an arrow key.  The batch is read
\* to its end, also after game_start is set and after a QUIT.
StartKey(direction) ==
    /\ mpc \in {"start", "start_quit"}
    /\ update_direction(direction)
    /\ game_start' = TRUE
    /\ UNCHANGED <<mpc, delay, histvars>>

\* The start loop, a QUIT event: pygame.quit(), and the loop goes on.
StartQuit ==
    /\ mpc = "start"
    /\ mpc' = "start_quit"
    /\ UNCHANGED <<vars, game_start, delay, histvars>>

\* After pygame.quit() the next pygame call (event.get() of the start loop,
\* or the drawing of the game loop) raises, and the program ends.
StartQuitRaises ==
    /\ mpc = "start_quit"
    /\ mpc' = "crashed"
    /\ UNCHANGED <<vars, game_start, delay, histvars>>

\* while not game_start: the loop is left once a batch has set game_start;
\* the flag is not set on the first pass of the game loop.
StartDone ==
    /\ mpc = "start"
    /\ game_start
    /\ mpc' = after_tick(end)
    /\ UNCHANGED <<vars, game_start, delay, histvars>>

\* handle_events, one event of the batch: an arrow key.
HandleKey(direction) ==
    /\ mpc = "events"
    /\ update_direction(direction)
    /\ UNCHANGED <<mainvars, histvars>>

\* handle_events, a QUIT event: sys.exit().
HandleQuit ==
    /\ mpc = "events"
    /\ pc = "idle"
    /\ mpc' = "exited"
    /\ UNCHANGED <<vars, game_start, delay, histvars>>

\* The rest of a pass of the game loop: the delay, the wait, board.next(),
\* and the test of get_end() that opens the following pass.
Tick ==
    /\ mpc = "events"
    /\ Fed(MainMaxLength)
    /\ delay' = IF recompute(delay) THEN delay_for(snake_length) ELSE delay
    /\ next
    /\ mpc' = after_tick(end')
    /\ UNCHANGED <<game_start, histvars>>

\* After the loop: the final score is printed and the program exits.
Finish ==
    /\ mpc = "over"
    /\ mpc' = "exited"
    /\ UNCHANGED <<vars, game_start, delay, histvars>>

NextMain ==
    \/ \E direction \in KEY_DICT : StartKey(direction)
    \/ StartQuit
    \/ StartQuitRaises
    \/ StartDone
    \/ \E direction \in KEY_DICT : HandleKey(direction)
    \/ HandleQuit
    \/ Tick
    \/ Finish

MainSpec == InitMain /\ [][NextMain]_allvars

----------------------------------------------------------------------------
\* Vocabulary of the properties.

HeadPos == <<snake_row, snake_col>>

ApplePos == <<apple_row, apple_col>>

SnakeCells == {x \in DOMAIN board : board[x] \in {"S1", "S0"}}

HeadCells == {x \in DOMAIN board : board[x] = "S1"}

FoodCells == {x \in DOMAIN board : board[x] = "A"}

\* The indices of the last snake_length entries of the history.
LiveIndices == {i \in 1 .. Len(snake) : i > Len(snake) - snake_length}

StaleIndices == (1 .. Len(snake)) \ LiveIndices

Neg(d) == <<0 - d[1], 0 - d[2]>>

\* The cell the head would move to on the next tick.
Target == <<snake_row + snake_direction[2], snake_col + snake_direction[1]>>

TargetOutOfBounds == Target \notin DOMAIN board

TargetIsBody == Target \in DOMAIN board /\ board[Target] = "S0"

EmptyCells == {x \in DOMAIN board : board[x] = "N"}

----------------------------------------------------------------------------
\* C1: after any sequence of next() calls on a constructed board, while the
\* termination flag is not set, the number of cells tagged 'S1' or 'S0'
\* equals _snake_length, ticks taken with direction (0, 0) included.
C1_SnakeCellCountIsLength ==
    (pc = "idle" /\ ~end) => Cardinality(SnakeCells) = snake_length

\* C2: before termination, the last _snake_length history entries are
\* pairwise distinct and are exactly the cells tagged 'S1' or 'S0'; the last
\* entry is the head position and the only 'S1' cell; stale entries are not
\* tagged 'S1' or 'S0'.
C2_LiveHistoryMatchesGrid ==
    (pc = "idle" /\ ~end) =>
        /\ Cardinality(LiveIndices) = snake_length
        /\ \A i, j \in LiveIndices : snake[i] = snake[j] => i = j
        /\ {snake[i] : i \in LiveIndices} = SnakeCells
        /\ snake[Len(snake)] = HeadPos
        /\ HeadCells = {HeadPos}
        /\ \A i \in StaleIndices : board[snake[i]] \notin {"S1", "S0"}

\* C3: the class's representation invariant: every position in the history
\* list _snake carries the tag 'S1' or 'S0'.
C3_EveryHistoryEntryTagged ==
    pc = "idle" => \A i \in 1 .. Len(snake) : board[snake[i]] \in {"S1", "S0"}

\* C4: between operations (after construction and after each completed
\* next()) exactly one cell is tagged 'A', and it is the cell get_apple()
\* reports; no step of next() other than the head's arrival removes that
\* tag.
C4_ExactlyOneFoodCell ==
    pc = "idle" => FoodCells = {ApplePos}

\* A tick has re-tagged a body and cleared a stale entry, and the food stands.
C4_Witness ==
    /\ pc = "idle" /\ call.op = "next" /\ ret = "None"
    /\ snake_length >= 3 /\ Len(snake) = snake_length + 1
    /\ board[ApplePos] = "A"

\* C5: a tick that moves the head onto the food cell raises _snake_length by
\* exactly 1 and leaves the old food cell tagged 'S1' or 'S0'; when the tick
\* returns, the new food is on a cell that was 'N' just before regeneration.
C5_EatingGrowsAndRespawns ==
    [][ (call'.op = "next" /\ <<snake_row', snake_col'>> = ApplePos) =>
          /\ snake_length' = snake_length + 1
          /\ board'[ApplePos] \in {"S1", "S0"}
          /\ pc' = "idle" =>
                /\ board'[<<apple_row', apple_col'>>] = "A"
                /\ <<apple_row', apple_col'>> # ApplePos
                /\ board_after_move(apple_row, apple_col)[<<apple_row', apple_col'>>] = "N"
                /\ <<apple_row', apple_col'>> \notin {snake'[i] : i \in 1 .. Len(snake')}
      ]_vars

\* The last tick ate: the history holds no stale entry and the snake grew.
C5_Witness ==
    /\ pc = "idle" /\ call.op = "next" /\ ret = "None"
    /\ snake_length >= 2 /\ Len(snake) = snake_length
    /\ board[ApplePos] = "A"

\* C6: a next() that ends the game (target out of bounds or tagged 'S0')
\* leaves grid, history, head, length, direction and food as they were; only
\* the termination flag and the cleared move-lock change.
C6_CrashLeavesStateUnchanged ==
    [][ (call'.op = "next" /\ (TargetOutOfBounds \/ TargetIsBody)) =>
          /\ UNCHANGED <<row, col, board, snake, snake_row, snake_col,
                         snake_length, snake_direction, apple_row, apple_col>>
          /\ end' = TRUE
          /\ move_lock' = FALSE
      ]_vars

\* A snake with a body has just crashed.
C6_Witness ==
    /\ call.op = "next" /\ ret = "True" /\ end
    /\ snake_length >= 2
    /\ TargetOutOfBounds \/ TargetIsBody

\* C7: next() sets the flag and returns True exactly when the target is out
\* of bounds or tagged 'S0'; a move onto 'N' or 'A' never sets it, a move
\* onto the last tail segment does.
C7_FlagSetIffCrash ==
    [][ call'.op = "next" =>
          /\ end' = (end \/ TargetOutOfBounds \/ TargetIsBody)
          /\ (TargetOutOfBounds \/ TargetIsBody) => ret' = "True"
          /\ (~(TargetOutOfBounds \/ TargetIsBody) /\ pc' = "idle") => ret' = "None"
      ]_vars

\* The game ended on the cell of the last tail segment.
C7_Witness ==
    /\ call.op = "next" /\ ret = "True" /\ end
    /\ TargetIsBody
    /\ Target = snake[Len(snake) - snake_length + 1]

\* C8: the termination flag is never cleared.
C8_EndIsAbsorbing ==
    [][end => end']_vars

\* A tick has moved the snake on a board whose flag was already set.
C8_Witness ==
    end /\ call.op = "next" /\ ret = "None"

\* C9: with a unit current direction, update_direction with its exact
\* negation changes neither the direction nor the move-lock.
C9_ReverseRejected ==
    [][ (/\ call'.op = "update_direction"
         /\ snake_direction \in KEY_DICT
         /\ call'.arg = Neg(snake_direction)) =>
          /\ snake_direction' = snake_direction
          /\ move_lock' = move_lock
      ]_vars

\* A reversal was requested with the lock clear and was not taken.
C9_Witness ==
    /\ call.op = "update_direction"
    /\ call.arg = Neg(snake_direction)
    /\ ~move_lock

\* C10 as stated: with the lock clear and a unit current direction, every
\* request that is not the exact reverse, the same direction included, is
\* taken and sets the move-lock.
C10_NonReverseAcceptedAndLocks ==
    [][ (/\ call'.op = "update_direction"
         /\ ~move_lock
         /\ snake_direction \in KEY_DICT
         /\ call'.arg # Neg(snake_direction)) =>
          /\ snake_direction' = call'.arg
          /\ move_lock' = TRUE
      ]_vars

\* C10 as amended: with the lock clear and a unit current direction, a
\* perpendicular request becomes the direction and sets the move-lock; a
\* request for the current direction leaves the direction as it is and the
\* move-lock clear.
C10_PerpendicularLocksSameDoesNot ==
    [][ (/\ call'.op = "update_direction"
         /\ ~move_lock
         /\ snake_direction \in KEY_DICT
         /\ call'.arg # Neg(snake_direction)) =>
          /\ snake_direction' = call'.arg
          /\ move_lock' = (call'.arg # snake_direction)
      ]_vars

\* After a tick that moved the head, the current direction was requested
\* again and the lock is still clear.
C10_Witness ==
    /\ call.op = "update_direction"
    /\ call.arg = snake_direction
    /\ ~move_lock
    /\ Len(snake) >= 2
    /\ snake[Len(snake)] # snake[Len(snake) - 1]

----------------------------------------------------------------------------
\* C11 as stated: between two consecutive next() calls, and between
\* construction and the first next(), at most one update_direction call
\* changes the committed direction.
C11_OneChangePerTick ==
    changes <= 1

\* C11 as amended: in an interval that starts with a unit direction at most
\* one call changes the direction, in an interval that starts with (0, 0) at
\* most two (the adoption, which sets no lock, and one perpendicular turn);
\* a call made with the lock set changes nothing; a change from a unit
\* direction sets the lock; next() clears the lock, and a perpendicular
\* request made with the lock clear takes effect.
C11_OneChangePerTickOnceMoving ==
    [][ /\ changes' <= (IF tick_dir' = <<0, 0>> THEN 2 ELSE 1)
        /\ (call'.op = "update_direction" /\ move_lock) =>
              UNCHANGED <<snake_direction, move_lock>>
        /\ (/\ call'.op = "update_direction"
            /\ snake_direction \in KEY_DICT
            /\ snake_direction' # snake_direction) => move_lock'
        /\ call'.op = "next" => ~move_lock'
        /\ (/\ call'.op = "update_direction"
            /\ ~move_lock
            /\ snake_direction \in KEY_DICT
            /\ call'.arg \notin {snake_direction, Neg(snake_direction)}) =>
              (snake_direction' = call'.arg /\ changes' = changes + 1)
      ]_allvars

\* After a tick with a unit direction one call has turned the snake and a
\* further call with another direction was refused by the lock.
C11_Witness ==
    /\ tick_dir \in KEY_DICT
    /\ changes = 1
    /\ move_lock
    /\ call.op = "update_direction"
    /\ call.arg # snake_direction

\* C12: with direction (0, 0) and the lock clear, update_direction(d) sets
\* the direction to d and leaves the lock clear, for each unit vector d.
C12_FirstDirectionAdoptedUnlocked ==
    [][ (/\ call'.op = "update_direction"
         /\ snake_direction = <<0, 0>>
         /\ ~move_lock) =>
          /\ snake_direction' = call'.arg
          /\ move_lock' = FALSE
      ]_allvars

\* The first direction has just been adopted: no tick yet, lock clear.
C12_Witness ==
    /\ call.op = "update_direction"
    /\ ret = "NoCall"
    /\ snake_direction = call.arg
    /\ ~move_lock

\* C13: construction with rows, cols >= 2 yields exactly one 'S1' cell at the
\* in-bounds head, exactly one 'A' cell elsewhere, 'N' everywhere else,
\* length 1, history [head], direction (0, 0), lock clear, flag False.
C13_ConstructedState ==
    call.op = "__init__" =>
        /\ row = call.arg[1] /\ col = call.arg[2]
        /\ DOMAIN board = Cells(row, col)
        /\ HeadPos \in Cells(row, col)
        /\ HeadCells = {HeadPos}
        /\ FoodCells = {ApplePos}
        /\ ApplePos # HeadPos
        /\ \A x \in DOMAIN board : x \notin {HeadPos, ApplePos} => board[x] = "N"
        /\ snake_length = 1
        /\ snake = <<HeadPos>>
        /\ snake_direction = <<0, 0>>
        /\ move_lock = FALSE
        /\ end = FALSE

\* A freshly constructed board that is not square.
C13_Witness ==
    call.op = "__init__" /\ row = MinDim /\ col > MinDim

\* C14: construction raises InvalidGridSizeException exactly when rows < 2
\* or cols < 2, and then no attribute of the board has been assigned.
C14_InvalidDimensionsRaise ==
    call.op = "__init__" =>
        /\ (pc = "InvalidGridSizeException") <=> (call.arg[1] < 2 \/ call.arg[2] < 2)
        /\ pc = "InvalidGridSizeException" =>
              /\ row = "unset" /\ col = "unset" /\ board = "unset"
              /\ snake_direction = "unset" /\ snake_row = "unset"
              /\ snake_col = "unset" /\ snake = "unset"
              /\ snake_length = "unset" /\ end = "unset"
              /\ apple_row = "unset" /\ apple_col = "unset"
              /\ move_lock = "unset"
        /\ pc # "InvalidGridSizeException" => pc = "idle" /\ board \in [Cells(row, col) -> Tags]

\* Construction with one row and enough columns was refused.
C14_Witness ==
    /\ pc = "InvalidGridSizeException"
    /\ call.arg[1] = 1
    /\ call.arg[2] >= MinDim

\* C15: food regeneration is unguarded against saturation: when the head
\* eats the food and no 'N' cell is left, generate_apple's loop has no exit:
\* next() does not return, no call follows, and no cell is tagged 'A'.
C15_SaturatedGridNeverReturns ==
    /\ [](pc = "generate_apple" =>
            (FoodCells = {} /\ EmptyCells = {} /\ ~ENABLED NextPlay))
    /\ [][ (/\ call'.op = "next"
            /\ <<snake_row', snake_col'>> = ApplePos
            /\ EmptyCells = {}) =>
             (/\ pc' = "generate_apple"
              /\ ret' = ret
              /\ <<apple_row', apple_col'>> = ApplePos) ]_allvars

\* On a 2x2 grid the snake went from length 3 to 4 and the loop is spinning.
C15_Witness ==
    pc = "generate_apple" /\ row = 2 /\ col = 2 /\ snake_length = 4

\* C17: next() returns a boolean: True when the call ended the game, False
\* on every other tick.
C17_NextReturnsBool ==
    ret \in {"NoCall", "True", "False"}

\* C19: _snake_length <= len(_snake) <= _snake_length + 1 in every state, so
\* the indices _snake[-i], i in 2 .. _snake_length, stay inside the list.
C19_HistoryLengthWindow ==
    snake_length <= Len(snake) /\ Len(snake) <= snake_length + 1

\* A snake with a body carries one stale entry after a tick.
C19_Witness ==
    /\ call.op = "next"
    /\ snake_length >= 2
    /\ Len(snake) = snake_length + 1
    /\ board[snake[1]] = "N"

\* A step in which next() ran: only next writes _snake, _end or pc.
TickStep == snake' # snake \/ end' # end \/ pc' # pc

\* C16: in the driving loop the delay is recomputed from the current length
\* on a tick only while the previous delay is above SPEED_CAP; the delays
\* never increase; a delay at or below SPEED_CAP never changes again, and
\* is not clamped to SPEED_CAP.  With length 1 the delay is 425.
C16_DelayFreezesBelowCap ==
    [][ /\ delay' <= delay
        /\ delay <= SPEED_CAP => delay' = delay
        /\ delay' # delay => TickStep
        /\ (TickStep /\ delay > SPEED_CAP) => delay' = delay_for(snake_length)
        /\ (TickStep /\ delay > SPEED_CAP /\ snake_length = 1) => delay' = 425
      ]_allvars

\* The delay froze below the cap at length 5 and a tick has since run with
\* a longer snake.
C16_Witness ==
    /\ delay < SPEED_CAP
    /\ snake_length > 5
    /\ Len(snake) = snake_length + 1
    /\ call.op = "next"

\* C18: the direction one next() uses is never the negation of the unit
\* direction the preceding next() used, so a snake with a body never ends
\* the game (the flag not yet set) by stepping back onto its neck.
C18_NoReversalBetweenTicks ==
    [][ call'.op = "next" =>
          /\ tick_dir \in KEY_DICT => snake_direction # Neg(tick_dir)
          /\ (~end /\ snake_length >= 2) => Target # snake[Len(snake) - 1]
      ]_allvars

\* Two ticks in a row moved a snake with a body in different directions.
C18_Witness ==
    /\ call.op = "next" /\ ret = "None"
    /\ snake_length >= 2
    /\ Len(snake) >= 3
    /\ LET n == Len(snake)
       IN  <<snake[n][1] - snake[n - 1][1], snake[n][2] - snake[n - 1][2]>>
             # <<snake[n - 1][1] - snake[n - 2][1], snake[n - 1][2] - snake[n - 2][2]>>

\* C20: main() never calls next() while the direction is (0, 0), and once
\* next() has set the termination flag it makes no further call on the
\* board.
C20_MainKeepsProtocol ==
    /\ [](mpc = "events" => snake_direction # <<0, 0>>)
    /\ [](end => mpc \in {"over", "exited"})
    /\ [][ /\ TickStep => snake_direction # <<0, 0>>
           /\ end => UNCHANGED vars ]_allvars

\* The game has ended and the loop has been left.
C20_Witness ==
    end /\ mpc = "over" /\ call.op = "next" /\ ret = "True"

====
